---- MODULE Spec2Model ----
(***************************************************************************)
(* Verification model of the Turbinia evidence upload route                *)
(* (turbinia/api/routes/evidence.py) and of the Bulk Extractor task        *)
(* (turbinia/workers/bulk_extractor.py), and of the request builder of the *)
(* command line client (turbinia_client/core/commands.py).                 *)
(*                                                                         *)
(* Eight specifications share the variables:                                *)
(*   Spec      the /evidence/upload request handler, one action per        *)
(*             request (the handler has no suspension point),              *)
(*   FileSpec  the upload_file coroutine driven by an awaiting caller,     *)
(*             one action per chunk,                                       *)
(*   TaskSpec  one BulkExtractorTask from the worker's state gate to the   *)
(*             return of run,                                              *)
(*   ReportSpec generate_summary_report and check_xml_attrib applied to    *)
(*             the report.xml files the tool may leave,                    *)
(*   RequestSpec one create_request call of the command line client,       *)
(*   ConcSpec  two upload_file coroutines awaited at the same time,        *)
(*   AttrSpec  the /evidence/types/{evidence_type} route,                  *)
(*   CliUploadSpec one upload command of the command line client, file by  *)
(*             file, with the calls it makes to the client library.        *)
(***************************************************************************)
EXTENDS Integers, Sequences, FiniteSets, TLC

VARIABLES
  config,     \* turbinia_config: CHUNK_SIZE, MAX_UPLOAD_SIZE
  store,      \* redis evidence records: evidence key -> [hash]
  disk,       \* files on the server: path -> bytes written
  now,        \* datetime.now() formatted with DATETIME_FORMAT
  responses,  \* one entry per finished request of the API server
  uf,         \* the frame of one upload_file coroutine
  task,       \* one BulkExtractorTask with its evidence and result
  rep,        \* one call of generate_summary_report and of check_xml_attrib
  cli,        \* one command of the command line client: its frame
  ups         \* the frames of the upload_file coroutines in flight together

vars == <<config, store, disk, now, responses, uf, task, rep, cli, ups>>

-----------------------------------------------------------------------------
(* Bounds of the model *)

MaxChunk == 2      \* largest CHUNK_SIZE
MaxLimit == 4      \* largest MAX_UPLOAD_SIZE
MaxBytes == 5      \* longest uploaded stream
MaxFiles == 3      \* most files in one upload request
MaxRequests == 2   \* most upload requests in one behaviour
MaxTime == 1       \* last value of the clock

-----------------------------------------------------------------------------
(* Python values *)

None == "None"

Bytes == {1, 2}

Streams == UNION {[1..n -> Bytes] : n \in 0..MaxBytes}

\* hashlib.sha3_224: the digest of the bytes fed to update(), in order.
\* Collision freedom is assumed: the digest determines the bytes.
HexDigest(fed) == <<"sha3_224", fed>>

Configs ==
  {[CHUNK_SIZE |-> c, MAX_UPLOAD_SIZE |-> m] : c \in 1..MaxChunk, m \in 1..MaxLimit}

\* The attributes a starlette UploadFile has.
UploadFileAttrs == {"file", "filename", "size", "headers", "content_type"}

\* A dict, a coroutine object or an unbound local name.
Unbound == [kind |-> "unbound", items |-> <<>>]
Coroutine == [kind |-> "coroutine", items |-> <<>>]

\* obj[key] of Python: a coroutine is not subscriptable, a dict raises
\* KeyError on a key it does not hold, an unbound local cannot be read.
GetItem(obj, key) ==
  IF obj.kind = "unbound" THEN [exc |-> "UnboundLocalError", val |-> None]
  ELSE IF obj.kind = "coroutine" THEN [exc |-> "TypeError", val |-> None]
  ELSE IF key \in DOMAIN obj.items THEN [exc |-> None, val |-> obj.items[key]]
  ELSE [exc |-> "KeyError", val |-> None]

-----------------------------------------------------------------------------
(* The files on the server *)

NoFiles == [p \in {} |-> <<>>]

\* open(path, 'wb'): creates or truncates.
OpenWb(d, path) == [p \in DOMAIN d \cup {path} |-> IF p = path THEN <<>> ELSE d[p]]

\* saved_file.write(chunk)
WriteChunk(d, path, chunk) == [d EXCEPT ![path] = @ \o chunk]

\* os.remove(path) inside try/except OSError: a missing file is logged only.
RemoveFile(d, path) == [p \in DOMAIN d \ {path} |-> d[p]]

-----------------------------------------------------------------------------
(* upload_file, evidence.py:38-76 *)

\* file.read(CHUNK_SIZE): the next bytes of the stream, at most n of them.
ReadChunk(data, pos, n) ==
  SubSeq(data, pos + 1, IF pos + n > Len(data) THEN Len(data) ELSE pos + n)

\* Line 62: the ceiling test.
SizeExceeded_Gt(size, limit) == size > limit

SizeExceeded(size, limit) == size >= limit

UfIdle ==
  [pc |-> "idle", file |-> [filename |-> <<"", "">>, data |-> <<>>],
   file_path |-> <<>>, calculate_hash |-> FALSE, pos |-> 0, size |-> 0,
   sha |-> <<>>, exc |-> None, file_info |-> Unbound]

\* os.path.splitext / the path upload_evidence builds at lines 182-187; a
\* filename is the pair <<stem, extension>>.
FilePath(ticked_id, filename, time) ==
  <<"OUTPUT_DIR", ticked_id, filename[1], time, filename[2]>>

\* Lines 68-75: the metadata dict. file.file_name is read from the UploadFile.
FileInfo(file, file_path, size, calculate_hash, sha) ==
  LET base == [k \in {"Original Name", "Saved Name", "File Path", "Size"} |->
                 CASE k = "Original Name" -> <<"name", file.filename>>
                   [] k = "Saved Name" -> <<"basename", file_path>>
                   [] k = "File Path" -> <<"path", file_path>>
                   [] OTHER -> <<"int", size>>]
  IN [kind |-> "dict",
      items |-> IF calculate_hash
                  THEN [k \in DOMAIN base \cup {"Hash"} |->
                          IF k = "Hash" THEN HexDigest(sha) ELSE base[k]]
                  ELSE base]

\* Line 55 up to the first await of line 56: the destination is opened for
\* writing and the coroutine suspends in file.read.
UfCall(file, file_path, calculate_hash) ==
  /\ uf.pc = "idle"
  /\ uf' = [UfIdle EXCEPT !.pc = "loop", !.file = file, !.file_path = file_path,
                          !.calculate_hash = calculate_hash]
  /\ disk' = OpenWb(disk, file_path)
  /\ UNCHANGED <<config, store, now, responses, task, rep, cli, ups>>

\* Lines 56-76: file.read returns and the coroutine runs to its next await,
\* to its raise or to its return.
UfIter ==
  /\ uf.pc = "loop"
  /\ LET chunk == ReadChunk(uf.file.data, uf.pos, config.CHUNK_SIZE)
         pos == uf.pos + Len(chunk)
         size == uf.size + config.CHUNK_SIZE
         sha == IF uf.calculate_hash THEN uf.sha \o chunk ELSE uf.sha
     IN IF chunk # <<>> /\ uf.size < config.MAX_UPLOAD_SIZE
          THEN /\ disk' = WriteChunk(disk, uf.file_path, chunk)
               /\ uf' = IF SizeExceeded(size, config.MAX_UPLOAD_SIZE)
                          THEN [uf EXCEPT !.pc = "raised", !.exc = "IOError",
                                          !.pos = pos, !.size = size, !.sha = sha]
                          ELSE [uf EXCEPT !.pos = pos, !.size = size, !.sha = sha]
          ELSE /\ disk' = disk
               /\ uf' = IF "file_name" \in UploadFileAttrs
                          THEN [uf EXCEPT !.pc = "returned", !.pos = pos,
                                          !.file_info =
                                            FileInfo(uf.file, uf.file_path, uf.size,
                                                     uf.calculate_hash, uf.sha)]
                          ELSE [uf EXCEPT !.pc = "raised", !.pos = pos,
                                          !.exc = "AttributeError"]
  /\ UNCHANGED <<config, store, now, responses, task, rep, cli, ups>>


(* Two upload_file coroutines in flight: each holds its own file object on
   the destination, opened with 'wb', and writes at its own offset. *)

UploadIds == {"u1", "u2"}

NoUploads == [u \in UploadIds |-> UfIdle]

\* saved_file.write(chunk) through a file object whose position is offset:
\* the bytes land at offset, over what another file object wrote there, and
\* a gap left by a truncation reads as zero bytes.
WriteAt(d, path, offset, chunk) ==
  LET old == d[path]
      end == offset + Len(chunk)
      len == IF end > Len(old) THEN end ELSE Len(old)
  IN [d EXCEPT ![path] =
        [i \in 1..len |->
           IF i > offset /\ i <= end THEN chunk[i - offset]
           ELSE IF i <= Len(old) THEN old[i] ELSE 0]]

\* Line 55 up to the first await of line 56, for the coroutine u.
UpCall(u, file, file_path, calculate_hash) ==
  /\ ups[u].pc = "idle"
  /\ ups' = [ups EXCEPT ![u] =
               [UfIdle EXCEPT !.pc = "loop", !.file = file,
                              !.file_path = file_path,
                              !.calculate_hash = calculate_hash]]
  /\ disk' = OpenWb(disk, file_path)
  /\ UNCHANGED <<config, store, now, responses, uf, task, rep, cli>>

\* Lines 56-76 for the coroutine u: from one await of file.read to the next,
\* to the raise or to the return.
UpIter(u) ==
  /\ ups[u].pc = "loop"
  /\ LET frame == ups[u]
         chunk == ReadChunk(frame.file.data, frame.pos, config.CHUNK_SIZE)
         pos == frame.pos + Len(chunk)
         size == frame.size + config.CHUNK_SIZE
         sha == IF frame.calculate_hash THEN frame.sha \o chunk ELSE frame.sha
     IN IF chunk # <<>> /\ frame.size < config.MAX_UPLOAD_SIZE
          THEN /\ disk' = WriteAt(disk, frame.file_path, frame.pos, chunk)
               /\ ups' = [ups EXCEPT ![u] =
                            IF SizeExceeded(size, config.MAX_UPLOAD_SIZE)
                              THEN [frame EXCEPT !.pc = "raised", !.exc = "IOError",
                                                 !.pos = pos, !.size = size,
                                                 !.sha = sha]
                              ELSE [frame EXCEPT !.pos = pos, !.size = size,
                                                 !.sha = sha]]
          ELSE /\ disk' = disk
               /\ ups' = [ups EXCEPT ![u] =
                            IF "file_name" \in UploadFileAttrs
                              THEN [frame EXCEPT !.pc = "returned", !.pos = pos,
                                                 !.file_info =
                                                   FileInfo(frame.file, frame.file_path,
                                                            frame.size,
                                                            frame.calculate_hash,
                                                            frame.sha)]
                              ELSE [frame EXCEPT !.pc = "raised", !.pos = pos,
                                                 !.exc = "AttributeError"]]
  /\ UNCHANGED <<config, store, now, responses, uf, task, rep, cli>>

-----------------------------------------------------------------------------
(* Strings of the Bulk Extractor task: sequences of one-character strings *)

\* str.replace(old, new) for one-character old and new.
Replace(str, old, new) == [i \in DOMAIN str |-> IF str[i] = old THEN new ELSE str[i]]

\* str.split(sep) for a one-character separator: the pieces between the
\* separators, empty pieces included.
RECURSIVE Split(_, _)
Split(str, sep) ==
  IF \A i \in DOMAIN str : str[i] # sep THEN <<str>>
  ELSE LET k == CHOOSE i \in DOMAIN str :
                  str[i] = sep /\ \A j \in 1..(i - 1) : str[j] # sep
       IN <<SubSeq(str, 1, k - 1)>> \o Split(SubSeq(str, k + 1, Len(str)), sep)

\* os.path.basename: what follows the last "/".
Basename(path) ==
  IF \A i \in DOMAIN path : path[i] # "/" THEN path
  ELSE LET k == CHOOSE i \in DOMAIN path :
                  path[i] = "/" /\ \A j \in (i + 1)..Len(path) : path[j] # "/"
       IN SubSeq(path, k + 1, Len(path))

\* os.path.join of a directory and a relative name.
PathJoin(dir, name) == dir \o <<"/">> \o name

-----------------------------------------------------------------------------
(* The structured artifact report.xml, as xml.etree sees it *)

\* The paths check_xml_attrib is asked for, lines 178-192.
XmlKeys ==
  {"creator/program", "creator/version",
   "creator/execution_environment/command_line",
   "creator/execution_environment/start_time", "report/elapsed_seconds"}

\* The text of a count element: digits, other text, or no text at all; a name
\* is a one-piece text; Missing stands for a feature_file without the child.
CountInt(n) == <<"int", n>>
CountText == <<"text">>
CountEmpty == <<"empty">>
Missing == <<>>

\* Lines 129-144 in a variant whose xml_hit starts as None.
check_xml_attrib_NoPlaceholder(xml, xml_key) ==
  LET xml_hit == None
  IN IF xml_key \in DOMAIN xml.fields THEN xml.fields[xml_key] ELSE xml_hit

\* Lines 129-144.
check_xml_attrib(xml, xml_key) ==
  LET xml_hit == "N/A"
  IN IF xml_key \in DOMAIN xml.fields THEN xml.fields[xml_key] ELSE xml_hit

\* int(count.text), line 202.
IntOf(text) ==
  IF text[1] = "int" THEN [exc |-> None, val |-> text[2]]
  ELSE IF text = CountEmpty THEN [exc |-> "TypeError", val |-> 0]
  ELSE [exc |-> "ValueError", val |-> 0]

\* findall(".//feature_file/name") and findall(".//feature_file/count"): the
\* child elements that exist, in document order.
RECURSIVE FindAll(_, _)
FindAll(entries, child) ==
  IF entries = <<>> THEN <<>>
  ELSE (IF Head(entries)[child] = Missing THEN <<>> ELSE <<Head(entries)[child]>>)
         \o FindAll(Tail(entries), child)

\* zip: pairs up to the shorter list.
Zip(names, counts) ==
  [i \in 1..(IF Len(names) < Len(counts) THEN Len(names) ELSE Len(counts)) |->
     [Name |-> names[i], Count |-> counts[i]]]

\* Lines 200-203 in a variant that counts the findings instead of adding up
\* their counts.
RECURSIVE ScanPairs_CountRows(_, _)
ScanPairs_CountRows(pairs, acc) ==
  IF pairs = <<>> THEN acc
  ELSE LET n == IntOf(Head(pairs).Count)
       IN IF n.exc # None THEN [acc EXCEPT !.exc = n.exc]
          ELSE ScanPairs_CountRows(Tail(pairs),
                 [acc EXCEPT !.scanner_results =
                               Append(@, [Name |-> Head(pairs).Name, Count |-> n.val]),
                             !.features_count = @ + 1])

\* Lines 200-203: the loop over the pairs. It stops at the first count that
\* int() refuses.
RECURSIVE ScanPairs(_, _)
ScanPairs(pairs, acc) ==
  IF pairs = <<>> THEN acc
  ELSE LET n == IntOf(Head(pairs).Count)
       IN IF n.exc # None THEN [acc EXCEPT !.exc = n.exc]
          ELSE ScanPairs(Tail(pairs),
                 [acc EXCEPT !.scanner_results =
                               Append(@, [Name |-> Head(pairs).Name, Count |-> n.val]),
                             !.features_count = @ + n.val])

\* Lines 204-205 in a variant that sorts ascending and reverses: a row goes
\* in front of the rows with its own count.
InsertByCount_TiesFirst(sorted, row) ==
  LET k == Cardinality({i \in DOMAIN sorted : sorted[i].Count > row.Count})
  IN SubSeq(sorted, 1, k) \o <<row>> \o SubSeq(sorted, k + 1, Len(sorted))

\* sorted(scanner_results, key=Count, reverse=True), lines 204-205: stable, a
\* row goes behind every row whose count is not smaller.
InsertByCount(sorted, row) ==
  LET k == Cardinality({i \in DOMAIN sorted : sorted[i].Count >= row.Count})
  IN SubSeq(sorted, 1, k) \o <<row>> \o SubSeq(sorted, k + 1, Len(sorted))

RECURSIVE SortedByCount(_)
SortedByCount(rows) ==
  IF rows = <<>> THEN <<>>
  ELSE InsertByCount(SortedByCount(SubSeq(rows, 1, Len(rows) - 1)), rows[Len(rows)])

\* Lines 207-211: header, separator and one line per row.
TableLines(sorted) ==
  <<<<"header", "Name", "Count">>, <<"separator", "---", "---">>>>
    \o [i \in DOMAIN sorted |-> <<"row", sorted[i].Name, sorted[i].Count>>]

NotAvailable == <<<<"text", "Execution successful, but the report is not available.">>>>

\* Lines 173-193.
RunSummaryLines(xml) ==
  <<<<"h4", "Bulk Extractor Results">>,
    <<"h5", "Run Summary">>,
    <<"bullet", "Program:", check_xml_attrib(xml, "creator/program"), "-",
      check_xml_attrib(xml, "creator/version")>>,
    <<"bullet", "Command Line:",
      check_xml_attrib(xml, "creator/execution_environment/command_line")>>,
    <<"bullet", "Start Time:",
      check_xml_attrib(xml, "creator/execution_environment/start_time")>>,
    <<"bullet", "Elapsed Time:", check_xml_attrib(xml, "report/elapsed_seconds")>>>>

\* Line 217.
Summary(features_count) ==
  <<<<"text", features_count, "artifacts have been extracted.">>>>

\* Lines 166-219: report.xml is parsed and the report assembled. A text is
\* the sequence of its lines; exc names the exception that leaves the
\* function, if any.
ParseAndReport(xml) ==
  IF ~xml.wellformed
    THEN [exc |-> "ParseError", report |-> <<>>, summary |-> <<>>]
  ELSE
    LET head == RunSummaryLines(xml)
    IN IF xml.feature_files
         THEN LET scan == ScanPairs(Zip(FindAll(xml.entries, "name"),
                                        FindAll(xml.entries, "count")),
                                    [exc |-> None, scanner_results |-> <<>>,
                                     features_count |-> 0])
              IN IF scan.exc # None
                   THEN [exc |-> scan.exc, report |-> <<>>, summary |-> <<>>]
                 ELSE IF scan.scanner_results = <<>>
                   THEN [exc |-> "IndexError", report |-> <<>>, summary |-> <<>>]
                 ELSE [exc |-> None,
                       report |-> head \o <<<<"h5", "Scanner Results">>>>
                                    \o TableLines(SortedByCount(scan.scanner_results)),
                       summary |-> Summary(scan.features_count)]
         ELSE [exc |-> None,
               report |-> head \o <<<<"h5", "There are no findings to report.">>>>,
               summary |-> Summary(0)]

\* Lines 157-164 in a variant that answers a missing report.xml with the
\* summary of an empty report.
generate_summary_report_CountSummary(xml) ==
  IF ~xml.exists
    THEN [exc |-> None, report |-> NotAvailable, summary |-> Summary(0)]
    ELSE ParseAndReport(xml)

\* generate_summary_report, lines 146-219.
generate_summary_report(xml) ==
  IF ~xml.exists
    THEN [exc |-> None, report |-> NotAvailable, summary |-> NotAvailable]
    ELSE ParseAndReport(xml)


-----------------------------------------------------------------------------
(* create_request, commands.py:209-297 *)

\* Option values as click hands them over: None or a string. A request also
\* holds the list made of a jobs option.
NoneValue == <<"None">>
Str(str) == <<"str", str>>
List(list) == <<"list", list>>

\* bool(value): None and '' are false.
Truthy(value) == value # NoneValue /\ value # Str(<<>>)

\* A dict is a function of its keys.
EmptyDict == [k \in {} |-> NoneValue]
Put(dict, key, value) ==
  [k \in DOMAIN dict \cup {key} |-> IF k = key THEN value ELSE dict[k]]
\* dict.pop(key), with a variant that leaves the key in place.
Pop_Keep(dict, key) == dict

Pop(dict, key) == [k \in DOMAIN dict \ {key} |-> dict[k]]

JobsKeys == {"jobs_allowlist", "jobs_denylist"}

\* Lines 235-243 in a variant whose elif is an if: an option key is written
\* to the evidence attributes as well.
PlaceOption_AlsoEvidence(key, value, request_options, request) ==
  IF ~Truthy(value) THEN request
  ELSE IF key \in JobsKeys
    THEN [request EXCEPT !.evidence = Put(@, key, value),
                         !.request_options = Put(@, key, List(Split(value[2], ",")))]
  ELSE [request EXCEPT !.evidence = Put(@, key, value),
                       !.request_options = Put(@, key, value)]

\* Lines 235-243: one turn of the loop over kwargs.
PlaceOption(key, value, request_options, request) ==
  IF ~Truthy(value) THEN request
  ELSE IF key \notin request_options
    THEN [request EXCEPT !.evidence = Put(@, key, value)]
  ELSE IF key \in JobsKeys
    THEN [request EXCEPT !.request_options = Put(@, key, List(Split(value[2], ",")))]
  ELSE [request EXCEPT !.request_options = Put(@, key, value)]

\* Lines 233-243: kwargs.items() in the order of the dict.
RECURSIVE PlaceOptions(_, _, _)
PlaceOptions(items, request_options, request) ==
  IF items = <<>> THEN request
  ELSE PlaceOptions(Tail(items), request_options,
                    PlaceOption(Head(items)[1], Head(items)[2],
                                request_options, request))

\* Line 220.
NewRequest(evidence_name) ==
  [evidence |-> Put(EmptyDict, "type", Str(evidence_name)),
   request_options |-> EmptyDict]

\* Lines 252-253.
WithYaml(recipe_name) ==
  IF recipe_name # <<>> /\ recipe_name[Len(recipe_name)] = ".yaml"
    THEN recipe_name ELSE recipe_name \o <<".yaml">>

\* ctx.obj.config_path after expanduser.
ConfigPath == <<"~", "cfg">>

\* Lines 256-265: the recipe in the working directory first, the one next to
\* the client configuration second; the empty tuple when neither is a file.
RecipePath(recipe_name, files) ==
  IF recipe_name \in files THEN <<recipe_name>>
  ELSE IF PathJoin(ConfigPath, recipe_name) \in files
    THEN <<PathJoin(ConfigPath, recipe_name)>>
  ELSE <<>>

\* The text of a recipe file, one per path.
ReadText(path) == <<"recipe of">> \o path

\* Lines 270-271 and 283: base64.b64encode(text.encode('utf-8')).decode('utf-8').
Base64 == [c \in {"recipe of", "r", ".yaml", "~", "cfg", "/"} |->
             CASE c = "recipe of" -> "cmVjaXBlIG9m" [] c = "r" -> "cg=="
               [] c = ".yaml" -> "LnlhbWw=" [] c = "~" -> "fg=="
               [] c = "cfg" -> "Y2Zn" [] c = "/" -> "Lw=="]
B64Encode(text) == [i \in DOMAIN text |-> Base64[text[i]]]

CliIdle ==
  [pc |-> "idle", evidence_name |-> <<>>, request_options |-> {},
   kwargs |-> <<>>, request |-> NewRequest(<<>>), sent |-> <<>>,
   log |-> "nothing", files |-> {}, readable |-> FALSE]

\* Lines 210-243: the request is built from the options; an evidence type of
\* another cloud provider ends the call before that.
CreateRequestBuild(evidence_name, other_cloud, request_options, kwargs) ==
  /\ cli.pc = "idle"
  /\ cli' =
       IF other_cloud
         THEN [cli EXCEPT !.pc = "returned", !.evidence_name = evidence_name,
                          !.request_options = request_options,
                          !.kwargs = kwargs,
                          !.log = "Google Cloud only"]
         ELSE [cli EXCEPT !.pc = "built", !.evidence_name = evidence_name,
                          !.request_options = request_options,
                          !.kwargs = kwargs,
                          !.request = PlaceOptions(kwargs, request_options,
                                                   NewRequest(evidence_name))]
  /\ UNCHANGED <<config, store, disk, now, responses, uf, task, rep, ups>>

\* Lines 285-297: the request goes to the API server; an error of the call
\* is logged.
Send(request, api_ok) ==
  [cli EXCEPT !.pc = "returned", !.request = request,
              !.sent = Append(@, request),
              !.log = IF api_ok THEN "Received response" ELSE "ApiException"]

\* Lines 245-297: the recipe options are settled and the request is sent.
CreateRequestSend(files, readable, api_ok) ==
  /\ cli.pc = "built"
  /\ LET options == cli.request.request_options
         here == [cli EXCEPT !.files = files, !.readable = readable]
     IN cli' =
          IF {"recipe_name", "recipe_data"} \subseteq DOMAIN options
            THEN [here EXCEPT !.pc = "returned", !.log = "only one of recipe_data or recipe_name"]
          ELSE IF "recipe_name" \in DOMAIN options
            THEN LET recipe_name == WithYaml(options["recipe_name"][2])
                     recipe_path == RecipePath(recipe_name, files)
                 IN IF recipe_path = <<>>
                      THEN [here EXCEPT !.pc = "returned", !.log = "Unable to load recipe"]
                    ELSE IF ~readable
                      THEN [here EXCEPT !.pc = "returned", !.log = "Error opening recipe file"]
                    ELSE [Send([cli.request EXCEPT !.request_options =
                                  Put(Pop(options, "recipe_name"), "recipe_data",
                                      Str(B64Encode(ReadText(recipe_path[1]))))],
                               api_ok)
                            EXCEPT !.files = files, !.readable = readable]
          ELSE [Send(cli.request, api_ok)
                  EXCEPT !.files = files, !.readable = readable]
  /\ UNCHANGED <<config, store, disk, now, responses, uf, task, rep, ups>>

-----------------------------------------------------------------------------
(* BulkExtractorTask, bulk_extractor.py:33-127 *)

EvidenceStates == {"NEW", "ATTACHED", "PROCESSED", "FAILED"}

\* Line 36, with a variant that also admits evidence nobody attached.
REQUIRED_STATES_WithNew == {"ATTACHED", "NEW"}

REQUIRED_STATES == {"ATTACHED"}

\* A task_config option: unset (None) or a string.
Unset == [set |-> FALSE, str |-> <<>>]
Option(str) == [set |-> TRUE, str |-> str]

\* Lines 71-78 in a variant that leaves out the translation of line 75.
BulkExtractorArgs_NoTranslate(task_config) ==
  IF task_config.bulk_extractor_args.set /\ task_config.bulk_extractor_args.str # <<>>
    THEN <<Split(task_config.bulk_extractor_args.str, ":")>>
    ELSE <<>>

\* Lines 71-78: the extra arguments in a one-element tuple, the empty tuple
\* (None) when the option is unset or empty.
BulkExtractorArgs(task_config) ==
  IF task_config.bulk_extractor_args.set /\ task_config.bulk_extractor_args.str # <<>>
    THEN <<Split(Replace(task_config.bulk_extractor_args.str, "~", "="), ":")>>
    ELSE <<>>

\* Lines 80-85 in a variant without the os.path.exists test of line 84.
RegexPatternFilePaths_NoCheck(task_config, existing) ==
  task_config.regex_pattern_files

\* Lines 80-85: the pattern files that exist, in their configured order.
RegexPatternFilePaths(task_config, existing) ==
  SelectSeq(task_config.regex_pattern_files, LAMBDA path : path \in existing)

\* Lines 104-106.
RECURSIVE PatternFlags(_)
PatternFlags(paths) ==
  IF paths = <<>> THEN <<>>
  ELSE <<<<"-F">>, Head(paths)>> \o PatternFlags(Tail(paths))

\* Lines 92-108 in a variant that adds the -F pairs before the extra
\* arguments.
Cmd_FlagsFirst(evidence, output_file_path, bulk_extractor_args, regex_pattern_file_paths) ==
  <<<<"bulk_extractor">>>>
    \o (IF evidence.type = "Directory" \/ evidence.type = "CompressedDirectory"
          THEN <<<<"-R">>>> ELSE <<>>)
    \o <<<<"-o">>, output_file_path>>
    \o PatternFlags(regex_pattern_file_paths)
    \o (IF bulk_extractor_args # <<>> THEN bulk_extractor_args[1] ELSE <<>>)
    \o <<evidence.local_path>>

\* Lines 92-108. An argument is a sequence of string pieces.
Cmd(evidence, output_file_path, bulk_extractor_args, regex_pattern_file_paths) ==
  <<<<"bulk_extractor">>>>
    \o (IF evidence.type = "Directory" \/ evidence.type = "CompressedDirectory"
          THEN <<<<"-R">>>> ELSE <<>>)
    \o <<<<"-o">>, output_file_path>>
    \o (IF bulk_extractor_args # <<>> THEN bulk_extractor_args[1] ELSE <<>>)
    \o PatternFlags(regex_pattern_file_paths)
    \o <<evidence.local_path>>

\* self.execute(cmd, result, new_evidence): a command that fails (a non-zero
\* exit, an execution error) raises TurbiniaException.
execute(ok) == IF ok THEN None ELSE "TurbiniaException"

\* output_evidence.compress(): a failure to archive raises TurbiniaException.
compress(ok) == IF ok THEN None ELSE "TurbiniaException"

\* TurbiniaTaskResult: close counts its calls.
NewResult ==
  [closed |-> 0, successful |-> FALSE, status |-> <<>>, report_data |-> <<>>,
   log |-> <<>>]

\* result.close(self, success, status)
Close(result, success, status) ==
  [result EXCEPT !.closed = @ + 1, !.successful = success, !.status = status]

\* str(exception)
ExceptionMessage(what) == <<<<"text", what>>>>

OutputDir == <<"/", "o", "u", "t">>

NoXml == [exists |-> FALSE, wellformed |-> FALSE, fields |-> <<>>,
          feature_files |-> FALSE, entries |-> <<>>]

TaskIdle ==
  [pc |-> "idle",
   evidence |-> [type |-> "RawDisk", state |-> "NEW", local_path |-> <<>>],
   task_config |-> [bulk_extractor_args |-> Unset, regex_pattern_files |-> <<>>],
   existing |-> {}, result |-> NewResult, cmd |-> <<>>, executed |-> 0,
   output_file_path |-> <<>>, new_evidence |-> <<>>, xml |-> NoXml,
   summary |-> <<>>, report_md |-> <<>>, compressed |-> FALSE, exc |-> None]

\* The worker takes a task for an evidence object and checks the state gate
\* before run is called: evidence whose state is not one of REQUIRED_STATES
\* fails the task with a precondition error and run is not entered.
RunWrapper(evidence, task_config, existing) ==
  /\ task.pc = "idle"
  /\ task' =
       IF evidence.state \in REQUIRED_STATES
         THEN [task EXCEPT !.pc = "run", !.evidence = evidence,
                           !.task_config = task_config, !.existing = existing]
         ELSE [task EXCEPT !.pc = "gated", !.evidence = evidence,
                           !.task_config = task_config, !.existing = existing,
                           !.exc = "PreconditionFailed",
                           !.result = Close(NewResult, FALSE,
                                            ExceptionMessage("PreconditionFailed"))]
  /\ UNCHANGED <<config, store, disk, now, responses, uf, rep, cli, ups>>

\* Lines 55-110: the output paths, the arguments and the command line.
RunBuild ==
  /\ task.pc = "run"
  /\ LET base_name == Basename(task.evidence.local_path)
         output_file_path == PathJoin(OutputDir, base_name)
         bulk_extractor_args == BulkExtractorArgs(task.task_config)
         regex_pattern_file_paths ==
           RegexPatternFilePaths(task.task_config, task.existing)
         cmd == Cmd(task.evidence, output_file_path, bulk_extractor_args,
                    regex_pattern_file_paths)
     IN task' = [task EXCEPT
                   !.pc = "execute",
                   !.output_file_path = output_file_path,
                   !.cmd = cmd,
                   !.result.log =
                     (IF regex_pattern_file_paths # <<>>
                        THEN <<<<"valid Pattern Files", Len(regex_pattern_file_paths)>>>>
                        ELSE <<>>)
                     \o (IF task.evidence.type \in {"Directory", "CompressedDirectory"}
                           THEN <<<<"-R Flag", task.evidence.type>>>> ELSE <<>>)
                     \o <<<<"Running Bulk Extractor as", cmd>>>>]
  /\ UNCHANGED <<config, store, disk, now, responses, uf, rep, cli, ups>>

\* Line 111 in a variant that goes on to the report after a failed command.
RunExecute_IgnoreFailure(ok, xml) ==
  /\ task.pc = "execute"
  /\ task' = [task EXCEPT !.pc = "report", !.executed = @ + 1, !.xml = xml,
                          !.new_evidence = IF ok THEN <<task.output_file_path>>
                                           ELSE <<>>]
  /\ UNCHANGED <<config, store, disk, now, responses, uf, rep, cli, ups>>

\* Line 111: self.execute runs the command. A command that succeeds leaves
\* its output tree, with or without a report.xml, and its output evidence is
\* registered.
RunExecute(ok, xml) ==
  /\ task.pc = "execute"
  /\ task' =
       IF execute(ok) = None
         THEN [task EXCEPT !.pc = "report", !.executed = @ + 1, !.xml = xml,
                           !.new_evidence = <<task.output_file_path>>]
         ELSE [task EXCEPT !.pc = "except", !.executed = @ + 1,
                           !.exc = execute(ok)]
  /\ UNCHANGED <<config, store, disk, now, responses, uf, rep, cli, ups>>

\* Lines 114-116: the report is generated and attached. An exception of
\* generate_summary_report is no TurbiniaException and leaves run.
RunReport ==
  /\ task.pc = "report"
  /\ LET made == generate_summary_report(task.xml)
     IN task' =
          IF made.exc = None
            THEN [task EXCEPT !.pc = "write", !.summary = made.summary,
                              !.result.report_data = made.report]
            ELSE [task EXCEPT !.pc = "raised", !.exc = made.exc]
  /\ UNCHANGED <<config, store, disk, now, responses, uf, rep, cli, ups>>

\* Lines 118-119: report.md is written; an OSError of open or write leaves
\* run.
RunWriteReport(ok) ==
  /\ task.pc = "write"
  /\ task' =
       IF ok
         THEN [task EXCEPT !.pc = "compress", !.report_md = task.result.report_data]
         ELSE [task EXCEPT !.pc = "raised", !.exc = "OSError"]
  /\ UNCHANGED <<config, store, disk, now, responses, uf, rep, cli, ups>>

\* Line 122 in a variant that goes on to close without compressing.
RunCompress_Skipped(ok) ==
  /\ task.pc = "compress"
  /\ task' = [task EXCEPT !.pc = "close"]
  /\ UNCHANGED <<config, store, disk, now, responses, uf, rep, cli, ups>>

\* Line 122: output_evidence.compress().
RunCompress(ok) ==
  /\ task.pc = "compress"
  /\ task' =
       IF compress(ok) = None
         THEN [task EXCEPT !.pc = "close", !.compressed = TRUE]
         ELSE [task EXCEPT !.pc = "except", !.exc = compress(ok)]
  /\ UNCHANGED <<config, store, disk, now, responses, uf, rep, cli, ups>>

\* Lines 123 and 127.
RunClose ==
  /\ task.pc = "close"
  /\ task' = [task EXCEPT !.pc = "returned",
                          !.result = Close(@, TRUE, task.summary)]
  /\ UNCHANGED <<config, store, disk, now, responses, uf, rep, cli, ups>>

\* Lines 124-126, with a variant that returns the result without closing it.
RunExcept_NoClose ==
  /\ task.pc = "except"
  /\ task' = [task EXCEPT !.pc = "returned"]
  /\ UNCHANGED <<config, store, disk, now, responses, uf, rep, cli, ups>>

RunExcept ==
  /\ task.pc = "except"
  /\ task' = [task EXCEPT !.pc = "returned",
                          !.result = Close(@, FALSE, ExceptionMessage(task.exc))]
  /\ UNCHANGED <<config, store, disk, now, responses, uf, rep, cli, ups>>

\* The frame of one call of generate_summary_report or check_xml_attrib.
RepIdle ==
  [pc |-> "idle", xml |-> NoXml, xml_key |-> None, xml_hit |-> None,
   out |-> [exc |-> None, report |-> <<>>, summary |-> <<>>]]

(* The inputs of a task *)

EvidenceTypes == {"RawDisk", "Directory", "CompressedDirectory"}

LocalPath == <<"/", "e", "v", "/", "d">>

MaxArgLen == 2     \* longest generated bulk_extractor_args string

ArgStrings ==
  {<<>>, <<"-", "e">>, <<"a", "~", "b", ":", "c">>}
    \cup UNION {[1..n -> {"a", "~", ":"}] : n \in 0..MaxArgLen}

PatternFiles == {<<"p", "1">>, <<"p", "2">>}

MaxPatternFiles == 2

\* report.xml as the tool may leave it: absent, not well-formed, or a tree
\* with or without the findings container and its feature_file entries.
AllFields == [k \in XmlKeys |-> "text"]
Tree(fields, feature_files, entries) ==
  [exists |-> TRUE, wellformed |-> TRUE, fields |-> fields,
   feature_files |-> feature_files, entries |-> entries]
Entry(name, count) == [name |-> name, count |-> count]

TaskXmlDocs ==
  {NoXml,
   [NoXml EXCEPT !.exists = TRUE],
   Tree(AllFields, FALSE, <<>>),
   Tree(<<>>, TRUE, <<>>),
   Tree(AllFields, TRUE, <<Entry(<<"b">>, CountInt(5)), Entry(<<"a">>, CountInt(5)),
                           Entry(<<"c">>, CountInt(9))>>),
   Tree(AllFields, TRUE, <<Entry(<<"a">>, CountText)>>),
   Tree(AllFields, TRUE, <<Entry(<<"a">>, CountEmpty)>>),
   Tree(AllFields, TRUE, <<Entry(<<"a">>, Missing), Entry(<<"b">>, CountInt(1))>>)}

TaskInit ==
  /\ config \in {c \in Configs : c.CHUNK_SIZE = MaxChunk /\ c.MAX_UPLOAD_SIZE = MaxLimit}
  /\ store = [k \in {} |-> None]
  /\ disk = NoFiles
  /\ now = 0
  /\ responses = <<>>
  /\ uf = UfIdle
  /\ task = TaskIdle
  /\ rep = RepIdle
  /\ cli = CliIdle
  /\ ups = NoUploads

TaskNext ==
  \/ /\ task.pc = "idle"
     /\ \E type \in EvidenceTypes, state \in EvidenceStates,
           args \in {Option(str) : str \in ArgStrings} \cup {Unset},
           files \in UNION {[1..n -> PatternFiles] : n \in 0..MaxPatternFiles},
           existing \in SUBSET PatternFiles :
          RunWrapper([type |-> type, state |-> state, local_path |-> LocalPath],
                     [bulk_extractor_args |-> args, regex_pattern_files |-> files],
                     existing)
  \/ RunBuild
  \/ \E ok \in BOOLEAN, xml \in TaskXmlDocs : RunExecute(ok, xml)
  \/ RunReport
  \/ \E ok \in BOOLEAN : RunWriteReport(ok)
  \/ \E ok \in BOOLEAN : RunCompress(ok)
  \/ RunClose
  \/ RunExcept

TaskSpec == TaskInit /\ [][TaskNext]_vars


-----------------------------------------------------------------------------
(* Driving generate_summary_report *)

MaxScanners == 3   \* most feature_file entries of a report.xml

ScannerNames == {<<"a">>, <<"b">>, <<"c">>}

ScannerCounts == {CountInt(5), CountInt(9), CountText, CountEmpty}

Entries ==
  {Entry(name, count) : name \in ScannerNames \cup {Missing},
                        count \in ScannerCounts \cup {Missing}}

\* A field element holds text or is empty (its text is None).
FieldMaps == UNION {[ks -> {"text", None}] : ks \in SUBSET XmlKeys}

\* Every shape of run summary without entries, and every list of entries
\* under a full run summary.
XmlDocs ==
  {NoXml, [NoXml EXCEPT !.exists = TRUE]}
    \cup {Tree(fields, ff, <<>>) : fields \in FieldMaps, ff \in BOOLEAN}
    \cup {Tree(AllFields, ff, entries) :
            ff \in BOOLEAN,
            entries \in UNION {[1..n -> Entries] : n \in 1..MaxScanners}}

ReportInit ==
  /\ config \in {c \in Configs : c.CHUNK_SIZE = MaxChunk /\ c.MAX_UPLOAD_SIZE = MaxLimit}
  /\ store = [k \in {} |-> None]
  /\ disk = NoFiles
  /\ now = 0
  /\ responses = <<>>
  /\ uf = UfIdle
  /\ task = TaskIdle
  /\ rep \in {[RepIdle EXCEPT !.xml = xml] : xml \in XmlDocs}
  /\ cli = CliIdle
  /\ ups = NoUploads

\* generate_summary_report(output_file_path) on the output tree.
GenerateReport ==
  /\ rep.pc = "idle"
  /\ rep' = [rep EXCEPT !.pc = "done", !.out = generate_summary_report(rep.xml)]
  /\ UNCHANGED <<config, store, disk, now, responses, uf, task, cli, ups>>

\* self.check_xml_attrib(xml_key) on the parsed tree.
CheckAttrib(xml_key) ==
  /\ rep.pc = "idle"
  /\ rep.xml.exists /\ rep.xml.wellformed
  /\ rep' = [rep EXCEPT !.pc = "looked up", !.xml_key = xml_key,
                        !.xml_hit = check_xml_attrib(rep.xml, xml_key)]
  /\ UNCHANGED <<config, store, disk, now, responses, uf, task, cli, ups>>

ReportNext ==
  \/ GenerateReport
  \/ \E xml_key \in XmlKeys : CheckAttrib(xml_key)

ReportSpec == ReportInit /\ [][ReportNext]_vars

-----------------------------------------------------------------------------
(* Driving create_request *)

EvidenceNames == {<<"RawDisk">>, <<"GoogleCloudDisk">>}

\* The parameters of an evidence command, in the order click passes them.
OptionKeys == <<"source_path", "jobs_allowlist", "recipe_name", "recipe_data">>

OptionValues ==
  {NoneValue, Str(<<>>), Str(<<"r">>), Str(<<"r", ".yaml">>),
   Str(<<"a", ",", "b">>)}

Kwargs ==
  {[i \in DOMAIN OptionKeys |-> <<OptionKeys[i], values[i]>>] :
     values \in [DOMAIN OptionKeys -> OptionValues]}

\* The keys of ctx.obj.request_options, which the client reads from the API
\* description at start.
RequestOptionKeys == SUBSET {OptionKeys[i] : i \in DOMAIN OptionKeys}

RecipeFiles ==
  SUBSET {<<"r", ".yaml">>, PathJoin(ConfigPath, <<"r", ".yaml">>)}

RequestInit ==
  /\ config \in {c \in Configs : c.CHUNK_SIZE = MaxChunk /\ c.MAX_UPLOAD_SIZE = MaxLimit}
  /\ store = [k \in {} |-> None]
  /\ disk = NoFiles
  /\ now = 0
  /\ responses = <<>>
  /\ uf = UfIdle
  /\ task = TaskIdle
  /\ rep = RepIdle
  /\ cli = CliIdle
  /\ ups = NoUploads

RequestNext ==
  \/ /\ cli.pc = "idle"
     /\ \E evidence_name \in EvidenceNames, other_cloud \in BOOLEAN,
           request_options \in RequestOptionKeys, kwargs \in Kwargs :
          CreateRequestBuild(evidence_name, other_cloud, request_options, kwargs)
  \/ /\ cli.pc = "built"
     /\ \E files \in RecipeFiles, readable \in BOOLEAN, api_ok \in BOOLEAN :
          CreateRequestSend(files, readable, api_ok)

RequestSpec == RequestInit /\ [][RequestNext]_vars

-----------------------------------------------------------------------------
(* Driving upload_file *)

FileNames == {<<"a", ".img">>}

FileInit ==
  /\ config \in Configs
  /\ store = [k \in {} |-> None]
  /\ disk = NoFiles
  /\ now = 0
  /\ responses = <<>>
  /\ uf = UfIdle
  /\ task = TaskIdle
  /\ rep = RepIdle
  /\ cli = CliIdle
  /\ ups = NoUploads

FileNext ==
  \/ \E name \in FileNames, data \in Streams, calculate_hash \in BOOLEAN :
       UfCall([filename |-> name, data |-> data],
              FilePath("t1", name, now), calculate_hash)
  \/ UfIter

FileSpec == FileInit /\ [][FileNext]_vars

-----------------------------------------------------------------------------
(* upload_evidence, evidence.py:164-207 *)

EvidenceKeys == {"e1", "e2"}

\* redis_manager.get_evidence_key_by_hash: the key of the record that holds the
\* hash, or None.
get_evidence_key_by_hash(st, file_hash) ==
  IF \E k \in DOMAIN st : st[k].hash = file_hash
    THEN CHOOSE k \in DOMAIN st : st[k].hash = file_hash
    ELSE None

\* Line 190: upload_file is an async function and the call is not awaited, so
\* the call only makes a coroutine object: its body does not run, no file is
\* opened and no IOError can reach the except clause of line 191.
CallUploadFile(file, file_path, calculate_hash) ==
  [exc |-> None, val |-> Coroutine]

\* Lines 63-65: the message of the IOError, which line 192 keeps as the
\* warning.
SizeErrorMessage(filename, limit) ==
  <<"Unable to upload file", filename, "greater than", limit>>

\* warning_message = None of line 188.
NoWarning == <<>>

\* Lines 196-197.
DuplicateWarning(filename, evidence_key) ==
  <<"File", filename, "was uploaded before, check", evidence_key>>

\* Line 206: list.append needs one argument.
AppendNothing(evidences) == [exc |-> "TypeError", val |-> evidences]

\* Lines 181-206, from file number i on. frame holds the locals that outlive
\* an iteration (evidences, file_info), the files on disk and the exception
\* that ended the loop, if any.
RECURSIVE ForEachFile(_, _, _, _, _, _, _, _)
ForEachFile(files, i, ticked_id, calculate_hash, st, time, limit, frame) ==
  IF i > Len(files) THEN frame
  ELSE
    LET file == files[i]
        file_path == FilePath(ticked_id, file.filename, time)
        call == CallUploadFile(file, file_path, calculate_hash)
        file_info == IF call.exc = None THEN call.val ELSE frame.file_info
        warning0 == IF call.exc = None THEN NoWarning
                    ELSE SizeErrorMessage(file.filename, limit)
        closed == frame.closed \cup {i}
        lookup == GetItem(file_info, "hash")
    IN IF call.exc \notin {None, "IOError"}
         THEN [frame EXCEPT !.exc = call.exc]
       ELSE IF lookup.exc # None
         THEN [frame EXCEPT !.exc = lookup.exc, !.file_info = file_info,
                            !.closed = closed]
       ELSE
         LET evidence_key == get_evidence_key_by_hash(st, lookup.val)
             warning_message ==
               IF evidence_key # None
                 THEN DuplicateWarning(file.filename, evidence_key)
                 ELSE warning0
         IN IF warning_message # NoWarning
              THEN ForEachFile(files, i + 1, ticked_id, calculate_hash, st, time,
                     limit,
                     [frame EXCEPT !.evidences = Append(@, warning_message),
                                   !.file_info = file_info,
                                   !.closed = closed,
                                   !.disk = RemoveFile(@, file_path)])
              ELSE LET appended == AppendNothing(frame.evidences)
                   IN IF appended.exc # None
                        THEN [frame EXCEPT !.exc = appended.exc,
                                           !.file_info = file_info,
                                           !.closed = closed]
                        ELSE ForEachFile(files, i + 1, ticked_id, calculate_hash,
                               st, time, limit,
                               [frame EXCEPT !.evidences = appended.val,
                                             !.file_info = file_info,
                                             !.closed = closed])

\* One POST /evidence/upload request. The handler has no await, so it runs
\* from line 180 to its return or to its exception without interleaving.
\* A response records the request, the JSON content and status code returned
\* at line 207, or the exception that left the handler.
upload_evidence(ticked_id, calculate_hash, files) ==
  /\ Len(responses) < MaxRequests
  /\ LET frame0 == [evidences |-> <<>>, file_info |-> Unbound, closed |-> {},
                    disk |-> disk, exc |-> None]
         frame == ForEachFile(files, 1, ticked_id, calculate_hash, store, now,
                              config.MAX_UPLOAD_SIZE, frame0)
     IN /\ disk' = frame.disk
        /\ responses' = Append(responses,
             [ticked_id |-> ticked_id, calculate_hash |-> calculate_hash,
              files |-> files, time |-> now,
              status_code |-> IF frame.exc = None THEN 200 ELSE 0,
              exc |-> frame.exc,
              content |-> IF frame.exc = None THEN frame.evidences ELSE <<>>])
  /\ UNCHANGED <<config, store, now, uf, task, rep, cli, ups>>

\* datetime.now() moves on between requests.
Tick ==
  /\ now < MaxTime
  /\ now' = now + 1
  /\ UNCHANGED <<config, store, disk, responses, uf, task, rep, cli, ups>>

\* The files a client submits: two short streams and one longer than any
\* MAX_UPLOAD_SIZE of the model.
BigData == [i \in 1..MaxLimit + 1 |-> IF i % 2 = 1 THEN 1 ELSE 2]
UploadFiles ==
  {[filename |-> <<"a", ".img">>, data |-> <<1>>],
   [filename |-> <<"c", ".img">>, data |-> <<2>>],
   [filename |-> <<"big", ".img">>, data |-> BigData]}

Batches == UNION {[1..n -> UploadFiles] : n \in 0..MaxFiles}

\* The records the store may hold when the server starts: no two of them with
\* the same hash.
InitialStores ==
  {st \in UNION {[ks -> {[hash |-> HexDigest(f.data)] : f \in UploadFiles}] :
                    ks \in SUBSET EvidenceKeys} :
     \A k1, k2 \in DOMAIN st : st[k1].hash = st[k2].hash => k1 = k2}

Init ==
  /\ config \in {c \in Configs : c.CHUNK_SIZE = MaxChunk /\ c.MAX_UPLOAD_SIZE = MaxLimit}
  /\ store \in InitialStores
  /\ disk = NoFiles
  /\ now = 0
  /\ responses = <<>>
  /\ uf = UfIdle
  /\ task = TaskIdle
  /\ rep = RepIdle
  /\ cli = CliIdle
  /\ ups = NoUploads

Next ==
  \/ \E calculate_hash \in BOOLEAN, files \in Batches :
       upload_evidence("t1", calculate_hash, files)
  \/ Tick

Spec == Init /\ [][Next]_vars

-----------------------------------------------------------------------------
(* Driving two uploads at the same time *)

ConcFiles ==
  {[filename |-> name, data |-> data] :
     name \in {<<"a", ".img">>, <<"c", ".img">>},
     data \in {<<1>>, <<1, 1, 1>>, <<2, 2, 2>>}}

ConcInit ==
  /\ config \in {c \in Configs : c.CHUNK_SIZE = MaxChunk /\ c.MAX_UPLOAD_SIZE = MaxLimit}
  /\ store = [k \in {} |-> None]
  /\ disk = NoFiles
  /\ now = 0
  /\ responses = <<>>
  /\ uf = UfIdle
  /\ task = TaskIdle
  /\ rep = RepIdle
  /\ cli = CliIdle
  /\ ups = NoUploads

\* Each caller builds the destination as lines 181-187 do, from the ticket,
\* the file name and the clock.
ConcNext ==
  \/ \E u \in UploadIds, file \in ConcFiles, calculate_hash \in BOOLEAN :
       UpCall(u, file, FilePath("t1", file.filename, now), calculate_hash)
  \/ \E u \in UploadIds : UpIter(u)
  \/ Tick

ConcSpec == ConcInit /\ [][ConcNext]_vars

-----------------------------------------------------------------------------
(* get_evidence_attributes, evidence.py:86-98 *)

KnownTypes == {"RawDisk", "Directory", "CompressedDirectory"}

\* evidence.map_evidence_attributes(): the attributes of every evidence type.
AttributeMapping == [t \in KnownTypes |-> List(<<"source_path", t>>)]

\* dict.get(key): None for a key the dict does not hold.
Get(dict, key) == IF key \in DOMAIN dict THEN dict[key] ELSE NoneValue

\* bool(dict): an empty dict is false.
TruthyDict(dict) == DOMAIN dict # {}

MaxAttrRequests == 3   \* most requests to the route in one behaviour

\* Lines 93-98.
get_evidence_attributes(evidence_type) ==
  /\ Len(responses) < MaxAttrRequests
  /\ LET attribute_mapping ==
           Put(EmptyDict, evidence_type, Get(AttributeMapping, evidence_type))
     IN responses' = Append(responses,
          IF ~TruthyDict(attribute_mapping)
            THEN [evidence_type |-> evidence_type, status_code |-> 404,
                  content |-> EmptyDict]
            ELSE [evidence_type |-> evidence_type, status_code |-> 200,
                  content |-> attribute_mapping])
  /\ UNCHANGED <<config, store, disk, now, uf, task, rep, cli, ups>>

\* The types a client may ask for: the known ones, one in the wrong case and
\* one that no evidence class has.
RequestedTypes == KnownTypes \cup {"rawdisk", "NoSuchType"}

AttrInit ==
  /\ config \in {c \in Configs : c.CHUNK_SIZE = MaxChunk /\ c.MAX_UPLOAD_SIZE = MaxLimit}
  /\ store = [k \in {} |-> None]
  /\ disk = NoFiles
  /\ now = 0
  /\ responses = <<>>
  /\ uf = UfIdle
  /\ task = TaskIdle
  /\ rep = RepIdle
  /\ cli = CliIdle
  /\ ups = NoUploads

AttrNext ==
  \E evidence_type \in RequestedTypes : get_evidence_attributes(evidence_type)

AttrSpec == AttrInit /\ [][AttrNext]_vars

-----------------------------------------------------------------------------
(* The upload command of the client, commands.py:396-460, and
   TurbiniaEvidenceApi.upload_evidence, turbinia_evidence_api.py:758-881 *)

\* Python values handed to the client library.
Tuple3(filename, filedata, mimetype) == <<"tuple", filename, filedata, mimetype>>
Bool(b) == <<"bool", b>>

\* upload_evidence_with_http_info(ticked_id, files, calculate_hash), lines
\* 866-896: the query and the form parameters of the POST.
upload_evidence_with_http_info(ticked_id, files, calculate_hash) ==
  [method |-> "POST", resource_path |-> "/api/evidence/upload",
   query_params |->
     (IF ticked_id # NoneValue THEN <<<<"ticked_id", ticked_id>>>> ELSE <<>>)
       \o (IF calculate_hash # NoneValue
             THEN <<<<"calculate_hash", calculate_hash>>>> ELSE <<>>),
   post_params |-> IF Truthy(files) THEN <<<<"files", files>>>> ELSE <<>>]

\* TurbiniaEvidenceApi.upload_evidence(ticked_id, files, calculate_hash),
\* lines 758-789.
TurbiniaEvidenceApi_upload_evidence(ticked_id, files, calculate_hash) ==
  upload_evidence_with_http_info(ticked_id, files, calculate_hash)

\* The files of the client's machine: a path is a sequence of pieces.
SmallData == <<1>>
LimitData == [i \in 1..MaxLimit |-> 1]
LocalFiles ==
  LET at == {<<<<"a", ".txt">>, SmallData, TRUE>>,
             <<<<"e", ".img">>, LimitData, TRUE>>,
             <<<<"big", ".img">>, BigData, TRUE>>,
             <<<<"locked", ".img">>, SmallData, FALSE>>,
             <<<<"d", "/", "a", ".txt">>, <<2>>, TRUE>>}
  IN [p \in {f[1] : f \in at} |->
        LET f == CHOOSE f \in at : f[1] = p
        IN [data |-> f[2], readable |-> f[3]]]

\* os.listdir of the directories of the client's machine.
LocalDirs == [d \in {<<"d">>} |-> <<<<"a", ".txt">>, <<"sub">>>>]

\* Lines 419-423: the files named with --file, then the plain files of each
\* directory named with --directory.
RECURSIVE FilesOf(_, _)
FilesOf(directory, names) ==
  IF names = <<>> THEN <<>>
  ELSE (IF PathJoin(directory, Head(names)) \in DOMAIN LocalFiles
          THEN <<PathJoin(directory, Head(names))>> ELSE <<>>)
         \o FilesOf(directory, Tail(names))

RECURSIVE AllFiles(_, _)
AllFiles(file, directory) ==
  IF directory = <<>> THEN file
  ELSE AllFiles(file \o FilesOf(Head(directory), LocalDirs[Head(directory)]),
                Tail(directory))

\* os.path.abspath
Abspath(path) == <<"/", "cwd", "/">> \o path

\* mimetypes.guess_type(filename)[0] or 'application/octet-stream'
Mimetype(filename) ==
  IF filename[Len(filename)] = ".txt" THEN "text/plain"
  ELSE "application/octet-stream"

\* Lines 426-442 in a variant without the size test of line 428.
Skipped_NoSizeTest(file_path, limit) ==
  \/ file_path \notin DOMAIN LocalFiles
  \/ ~LocalFiles[file_path].readable

\* Lines 426-442: the file is left out when getsize or open raises OSError
\* or when it is larger than MAX_UPLOAD_SIZE.
Skipped(file_path, limit) ==
  \/ file_path \notin DOMAIN LocalFiles
  \/ Len(LocalFiles[file_path].data) > limit
  \/ ~LocalFiles[file_path].readable

\* Lines 436-441.
UploadTuple(file_path) ==
  Tuple3(Basename(file_path), LocalFiles[file_path].data,
         Mimetype(Basename(file_path)))

\* Lines 447-451: the text kept for an ApiException.
ApiErrorMessage(status) == <<"Received status code", status>>

CliUploadIdle ==
  [pc |-> "idle", ticket_id |-> Str(<<>>), calculate_hash |-> FALSE,
   json_dump |-> FALSE, all_files |-> <<>>, i |-> 1, calls |-> <<>>,
   report |-> EmptyDict, log |-> <<>>, echoed |-> <<>>]

\* Lines 413-424: the list of files is made and the report starts empty.
CliUploadStart(ticket_id, file, directory, calculate_hash, json_dump) ==
  /\ cli.pc = "idle"
  /\ cli' = [cli EXCEPT !.pc = "loop", !.ticket_id = ticket_id,
                        !.calculate_hash = calculate_hash,
                        !.json_dump = json_dump,
                        !.all_files = AllFiles(file, directory)]
  /\ UNCHANGED <<config, store, disk, now, responses, uf, task, rep, ups>>

\* Lines 425-453: one turn of the loop. The library is called with the
\* tuple, the ticket and the flag, in this order (line 444-445); the server
\* answers with status.
CliUploadFile(status) ==
  /\ cli.pc = "loop"
  /\ cli.i <= Len(cli.all_files)
  /\ LET file_path == cli.all_files[cli.i]
     IN cli' =
          IF Skipped(file_path, config.MAX_UPLOAD_SIZE)
            THEN [cli EXCEPT !.i = @ + 1,
                             !.log = Append(@, <<"not uploaded", file_path>>)]
            ELSE
              LET upload_file == UploadTuple(file_path)
                  call == TurbiniaEvidenceApi_upload_evidence(
                            upload_file, cli.ticket_id, Bool(cli.calculate_hash))
                  answer == IF status = 200 THEN <<"response", status>>
                            ELSE ApiErrorMessage(status)
              IN [cli EXCEPT
                    !.i = @ + 1,
                    !.calls = Append(@, [file_path |-> file_path, request |-> call,
                                         status |-> status]),
                    !.report = Put(@, Abspath(file_path), answer),
                    !.log = IF status = 200 THEN @ ELSE Append(@, answer)]
  /\ UNCHANGED <<config, store, disk, now, responses, uf, task, rep, ups>>

\* Lines 454-460: the report is printed, as JSON or as markdown.
CliUploadEcho ==
  /\ cli.pc = "loop"
  /\ cli.i > Len(cli.all_files)
  /\ cli' = [cli EXCEPT !.pc = "done",
                        !.echoed = <<IF cli.json_dump THEN "json" ELSE "markdown",
                                     cli.report>>]
  /\ UNCHANGED <<config, store, disk, now, responses, uf, task, rep, ups>>

MaxCliFiles == 2   \* most paths given with --file

CliPaths == {<<"a", ".txt">>, <<"e", ".img">>, <<"big", ".img">>,
             <<"locked", ".img">>, <<"gone", ".img">>}

\* The answers of the server: done, not valid, failed.
ApiStatus == {200, 422, 500}

CliUploadInit ==
  /\ config \in {c \in Configs : c.CHUNK_SIZE = MaxChunk /\ c.MAX_UPLOAD_SIZE = MaxLimit}
  /\ store = [k \in {} |-> None]
  /\ disk = NoFiles
  /\ now = 0
  /\ responses = <<>>
  /\ uf = UfIdle
  /\ task = TaskIdle
  /\ rep = RepIdle
  /\ cli = CliUploadIdle
  /\ ups = NoUploads

CliUploadNext ==
  \/ /\ cli.pc = "idle"
     /\ \E file \in UNION {[1..n -> CliPaths] : n \in 0..MaxCliFiles},
           directory \in {<<>>, <<<<"d">>>>},
           calculate_hash \in BOOLEAN, json_dump \in BOOLEAN :
          CliUploadStart(Str(<<"t", "1">>), file, directory, calculate_hash,
                         json_dump)
  \/ \E status \in ApiStatus : CliUploadFile(status)
  \/ CliUploadEcho

CliUploadSpec == CliUploadInit /\ [][CliUploadNext]_vars

-----------------------------------------------------------------------------
(* Claims about upload_evidence *)

\* The outcome of file number i of a finished request, NoOutcome when the
\* request returned no outcome for it.
NoOutcome == <<"no outcome">>

Outcome(r, i) ==
  IF r.exc = None /\ i <= Len(r.content) THEN r.content[i] ELSE NoOutcome

IsDuplicate(outcome) == outcome[1] = "File"
IsSizeError(outcome) == outcome[1] = "Unable to upload file"
IsNewEvidence(outcome) ==
  outcome # NoOutcome /\ ~IsDuplicate(outcome) /\ ~IsSizeError(outcome)

\* A stream the ceiling lets through, and one it stops.
Fits(data) == Len(data) + config.CHUNK_SIZE <= config.MAX_UPLOAD_SIZE
Oversize(data) == Len(data) >= config.MAX_UPLOAD_SIZE

HashUnique(st) == \A k1, k2 \in DOMAIN st : st[k1].hash = st[k2].hash => k1 = k2

\* C1: no two records of the store share a content hash, and every upload
\* (with hash calculation) of content whose hash the store holds is rejected
\* as a duplicate of the record that holds it.
C1_HashUniqueDuplicatesRejected ==
  /\ HashUnique(store)
  /\ \A n \in DOMAIN responses :
       LET r == responses[n]
       IN r.calculate_hash =>
            \A i \in DOMAIN r.files :
              LET key == get_evidence_key_by_hash(store, HexDigest(r.files[i].data))
              IN key # None /\ Fits(r.files[i].data) =>
                   Outcome(r, i) = DuplicateWarning(r.files[i].filename, key)

\* C2: of two ingestions of byte-identical content, the second is answered
\* with a duplicate notice naming the record of the first, which the store
\* holds under the hash of the content.
C2_DedupIdempotence ==
  \A m, n \in DOMAIN responses :
    LET r1 == responses[m]
        r2 == responses[n]
    IN m < n /\ r1.calculate_hash /\ r2.calculate_hash =>
         \A i \in DOMAIN r1.files, j \in DOMAIN r2.files :
           r1.files[i].data = r2.files[j].data /\ Fits(r1.files[i].data) =>
             LET key == get_evidence_key_by_hash(store, HexDigest(r1.files[i].data))
             IN /\ key # None
                /\ Outcome(r2, j) = DuplicateWarning(r2.files[j].filename, key)

\* C3: of two requests in flight together that carry the same content, at
\* most one gets the new-evidence outcome and the other gets the duplicate
\* outcome, whichever of them the server runs first.
C3_AtomicCheckAndInsert ==
  \A m, n \in DOMAIN responses :
    LET r1 == responses[m]
        r2 == responses[n]
    IN m # n /\ r1.calculate_hash /\ r2.calculate_hash
         /\ Len(r1.files) = 1 /\ r1.files = r2.files /\ Fits(r1.files[1].data) =>
         /\ ~(IsNewEvidence(Outcome(r1, 1)) /\ IsNewEvidence(Outcome(r2, 1)))
         /\ IsDuplicate(Outcome(r1, 1)) \/ IsDuplicate(Outcome(r2, 1))

\* C5: a request that carried an oversize file has answered it with the size
\* error, and no file is left at the destination path of that file.
C5_OversizeFileRemoved ==
  \A n \in DOMAIN responses :
    LET r == responses[n]
    IN \A i \in DOMAIN r.files :
         Oversize(r.files[i].data) =>
           /\ IsSizeError(Outcome(r, i))
           /\ FilePath(r.ticked_id, r.files[i].filename, r.time) \notin DOMAIN disk

\* C6: every request ends with status 200 and a result list of exactly one
\* outcome per submitted file; none ends in an exception.
C6_OneOutcomePerFile ==
  \A n \in DOMAIN responses :
    LET r == responses[n]
    IN r.exc = None /\ r.status_code = 200 /\ Len(r.content) = Len(r.files)

\* C7: a batch of three files whose second file is oversize, the other two
\* new to the store, is answered [new evidence, size error, new evidence].
C7_BatchIsolation ==
  \A n \in DOMAIN responses :
    LET r == responses[n]
    IN Len(r.files) = 3 /\ r.calculate_hash /\ Oversize(r.files[2].data)
         /\ Fits(r.files[1].data) /\ Fits(r.files[3].data)
         /\ r.files[1].data # r.files[3].data
         /\ (\A i \in {1, 3} :
               get_evidence_key_by_hash(store, HexDigest(r.files[i].data)) = None) =>
         /\ IsNewEvidence(Outcome(r, 1))
         /\ IsSizeError(Outcome(r, 2))
         /\ IsNewEvidence(Outcome(r, 3))

\* C18: a file whose hash the dedup lookup finds is answered with the
\* duplicate notice that names the record holding the hash, its newly written
\* copy is gone from the disk, and the store holds no second record of it.
C18_DuplicateDeletedAndNamed ==
  \A n \in DOMAIN responses :
    LET r == responses[n]
    IN \A i \in DOMAIN r.files :
         LET digest == HexDigest(r.files[i].data)
             key == get_evidence_key_by_hash(store, digest)
         IN r.calculate_hash /\ Fits(r.files[i].data) /\ key # None =>
              /\ Outcome(r, i) = DuplicateWarning(r.files[i].filename, key)
              /\ FilePath(r.ticked_id, r.files[i].filename, r.time) \notin DOMAIN disk
              /\ Cardinality({k \in DOMAIN store : store[k].hash = digest}) = 1

\* C19: a file within the size limit whose hash the dedup lookup does not
\* find is answered with a new-evidence outcome, stays on the disk at its
\* destination path, and the store holds a record with its hash.
C19_NewEvidencePut ==
  \A n \in DOMAIN responses :
    LET r == responses[n]
    IN \A i \in DOMAIN r.files :
         LET digest == HexDigest(r.files[i].data)
         IN r.calculate_hash /\ Fits(r.files[i].data)
              /\ get_evidence_key_by_hash(store, digest) = None =>
              /\ IsNewEvidence(Outcome(r, i))
              /\ FilePath(r.ticked_id, r.files[i].filename, r.time) \in DOMAIN disk
              /\ \E k \in DOMAIN store : store[k].hash = digest

-----------------------------------------------------------------------------
(* Claims about BulkExtractorTask.run *)

\* C8: a task for evidence whose state is not ATTACHED (NEW, for one) fails
\* at once with the precondition error: its result is closed as failed, no
\* command is built and execute is never called.
C8_StateGate ==
  task.pc # "idle" /\ task.evidence.state # "ATTACHED" =>
    /\ task.pc = "gated"
    /\ task.exc = "PreconditionFailed"
    /\ task.executed = 0 /\ task.cmd = <<>>
    /\ task.result.closed = 1 /\ ~task.result.successful

C8_Witness ==
  task.pc = "gated" /\ task.evidence.state = "NEW" /\ task.executed = 0

\* C9: run never lets an exception escape, and a run that has returned has
\* closed its result.
C9_RunAlwaysReturnsClosed ==
  /\ task.pc # "raised"
  /\ task.pc = "returned" => task.result.closed >= 1

\* C10: result.close is never called twice, and when run has returned it has
\* been called exactly once: with success and the summary as status on the
\* success branch, with failure and the exception message on the failure
\* branch.
C10_ClosedExactlyOnce ==
  /\ task.result.closed <= 1
  /\ task.pc = "returned" =>
       /\ task.result.closed = 1
       /\ \/ task.exc = None /\ task.result.successful
               /\ task.result.status = task.summary
          \/ task.exc = "TurbiniaException" /\ ~task.result.successful
               /\ task.result.status = ExceptionMessage(task.exc)

C10_Witness ==
  /\ task.pc = "returned" /\ task.result.closed = 1
  /\ task.exc = "TurbiniaException" /\ task.new_evidence # <<>>

\* C11: when the external command fails, run goes to its except clause and
\* returns: the result is closed once with success = False and the message of
\* the exception as status, no report is generated or written and nothing is
\* compressed.
C11_ToolFailureClosesFailed ==
  task.executed = 1 /\ task.new_evidence = <<>> =>
    /\ task.pc \in {"except", "returned"}
    /\ task.exc = "TurbiniaException"
    /\ task.result.report_data = <<>> /\ task.summary = <<>>
    /\ task.report_md = <<>> /\ ~task.compressed
    /\ task.pc = "returned" =>
         /\ task.result.closed = 1 /\ ~task.result.successful
         /\ task.result.status = ExceptionMessage("TurbiniaException")

C11_Witness ==
  /\ task.pc = "returned" /\ task.executed = 1 /\ task.new_evidence = <<>>
  /\ ~task.result.successful

\* C24: a result closed with success = True belongs to a run that executed
\* the command once, attached the report made from the output, wrote it to
\* report.md and compressed the output, in this order: nothing is compressed
\* before report.md is written, nothing written before the report is
\* attached, no report made before the command has run.
C24_SuccessPathOrder ==
  /\ task.result.closed > 0 /\ task.result.successful =>
       /\ task.compressed
       /\ task.result.status = task.summary
  /\ task.compressed =>
       /\ task.pc \in {"close", "returned"}
       /\ task.report_md = task.result.report_data
  /\ task.pc \in {"compress", "close"} \/ (task.pc = "returned" /\ task.exc = None) =>
       task.report_md = task.result.report_data
  /\ task.pc \in {"write", "compress", "close"} \/ (task.pc = "returned" /\ task.exc = None) =>
       /\ task.result.report_data = generate_summary_report(task.xml).report
       /\ task.summary = generate_summary_report(task.xml).summary
       /\ task.executed = 1
  /\ task.pc \in {"idle", "gated", "run", "execute"} =>
       /\ task.executed = 0 /\ task.result.report_data = <<>>
       /\ task.report_md = <<>> /\ ~task.compressed
  /\ task.pc = "report" =>
       task.executed = 1 /\ task.result.report_data = <<>> /\ ~task.compressed
  /\ task.pc = "write" => task.report_md = <<>> /\ ~task.compressed
  /\ task.pc = "compress" => ~task.compressed /\ task.result.closed = 0

C24_Witness ==
  /\ task.pc = "returned" /\ task.result.closed = 1 /\ task.result.successful
  /\ task.compressed /\ task.executed = 1
  /\ task.report_md = task.result.report_data /\ task.report_md # <<>>

-----------------------------------------------------------------------------
(* Claims about generate_summary_report and check_xml_attrib *)

Returned == rep.pc = "done" /\ rep.out.exc = None

\* The rows of the rendered table, and the findings of the artifact in the
\* order the loop of line 200 meets them.
Rows(report) == SelectSeq(report, LAMBDA line : line[1] = "row")
Findings(xml) ==
  LET pairs == Zip(FindAll(xml.entries, "name"), FindAll(xml.entries, "count"))
  IN [i \in DOMAIN pairs |-> <<"row", pairs[i].Name, pairs[i].Count[2]>>]

RECURSIVE SumOfCounts(_)
SumOfCounts(rows) ==
  IF rows = <<>> THEN 0 ELSE Head(rows)[3] + SumOfCounts(Tail(rows))

\* C12: without a report.xml generate_summary_report does not raise; report
\* and summary are both the text "Execution successful, but the report is not
\* available."
C12_NoReportXml ==
  rep.pc = "done" /\ ~rep.xml.exists =>
    /\ rep.out.exc = None
    /\ rep.out.report =
         <<<<"text", "Execution successful, but the report is not available.">>>>
    /\ rep.out.summary = rep.out.report

C12_Witness == Returned /\ ~rep.xml.exists /\ rep.out.summary # <<>>

\* C13: the rows of the table are in descending order of count, and the rows
\* of one count stand in the order the findings were met.
C13_SortedStable ==
  Returned /\ rep.xml.exists /\ rep.xml.feature_files =>
    LET rows == Rows(rep.out.report)
        orig == Findings(rep.xml)
    IN /\ Len(rows) = Len(orig)
       /\ \A i, j \in DOMAIN rows : i < j => rows[i][3] >= rows[j][3]
       /\ \A k \in DOMAIN orig :
            SelectSeq(rows, LAMBDA row : row[3] = orig[k][3])
              = SelectSeq(orig, LAMBDA row : row[3] = orig[k][3])

C13_Witness ==
  /\ Returned
  /\ rep.xml.feature_files
  /\ rep.xml.entries = <<Entry(<<"b">>, CountInt(5)), Entry(<<"a">>, CountInt(5)),
                         Entry(<<"c">>, CountInt(9))>>
  /\ Rows(rep.out.report) =
       <<<<"row", <<"c">>, 9>>, <<"row", <<"b">>, 5>>, <<"row", <<"a">>, 5>>>>

\* The counts of the artifact that are numbers, added up.
RECURSIVE SumOfArtifact(_)
SumOfArtifact(entries) ==
  IF entries = <<>> THEN 0
  ELSE (IF Head(entries).count # Missing /\ Head(entries).count[1] = "int"
          THEN Head(entries).count[2] ELSE 0) + SumOfArtifact(Tail(entries))

\* C14 as stated: every summary generate_summary_report returns reads "<N>
\* artifacts have been extracted.", N the sum of the counts of all findings
\* of the artifact, 0 without the findings container.
C14_SummaryAlwaysCount ==
  Returned =>
    rep.out.summary =
      <<<<"text",
          IF rep.xml.exists /\ rep.xml.feature_files
            THEN SumOfArtifact(rep.xml.entries) ELSE 0,
          "artifacts have been extracted.">>>>

\* C14 amended: when report.xml exists and generate_summary_report returns,
\* the summary reads "<N> artifacts have been extracted.", N the sum of the
\* counts in the rows of the report's table, 0 without the findings container.
C14_SummaryCountsRows ==
  Returned /\ rep.xml.exists =>
    /\ rep.out.summary =
         <<<<"text", SumOfCounts(Rows(rep.out.report)),
             "artifacts have been extracted.">>>>
    /\ ~rep.xml.feature_files => rep.out.summary[1][2] = 0

C14_Witness ==
  /\ Returned /\ rep.xml.exists /\ rep.xml.feature_files
  /\ Len(Rows(rep.out.report)) = 2
  /\ rep.out.summary[1][2] = 14

\* C15: a field lookup yields "N/A" when the path is absent from the tree and
\* the text of the element when it is present.
C15_MissingFieldPlaceholder ==
  rep.pc = "looked up" =>
    IF rep.xml_key \in DOMAIN rep.xml.fields
      THEN rep.xml_hit = rep.xml.fields[rep.xml_key]
      ELSE rep.xml_hit = "N/A"

C15_Witness ==
  rep.pc = "looked up" /\ rep.xml_key \notin DOMAIN rep.xml.fields
    /\ rep.xml_hit = "N/A"

\* C25: for every well-formed report.xml that exists, whatever is missing
\* from it, generate_summary_report returns a (report, summary) pair and
\* raises nothing.
C25_NeverRaises ==
  rep.pc = "done" /\ rep.xml.exists /\ rep.xml.wellformed =>
    /\ rep.out.exc = None
    /\ rep.out.report # <<>>
    /\ rep.out.summary # <<>>

-----------------------------------------------------------------------------
(* Claims about the command line *)

\* The arguments of cmd between the output path and the -F pairs.
ExtraArgs ==
  LET first == IF task.evidence.type \in {"Directory", "CompressedDirectory"}
                 THEN 5 ELSE 4
      flags == 2 * Len(SelectSeq(task.task_config.regex_pattern_files,
                                 LAMBDA path : path \in task.existing))
  IN SubSeq(task.cmd, first, Len(task.cmd) - 1 - flags)

\* ':'.join(pieces)
RECURSIVE Join(_)
Join(pieces) ==
  IF Len(pieces) = 1 THEN pieces[1]
  ELSE pieces[1] \o <<":">> \o Join(Tail(pieces))

\* C16: the extra arguments of the command are the pieces of the option
\* string between its ':' delimiters, in their order, with every '~' turned
\* into '='; an unset (or empty) option adds no argument.
C16_ExtraArguments ==
  task.cmd # <<>> =>
    LET opt == task.task_config.bulk_extractor_args
    IN IF ~opt.set \/ opt.str = <<>>
         THEN ExtraArgs = <<>>
         ELSE /\ ExtraArgs # <<>>
              /\ \A k \in DOMAIN ExtraArgs :
                   \A i \in DOMAIN ExtraArgs[k] : ExtraArgs[k][i] \notin {":", "~"}
              /\ Join(ExtraArgs) =
                   [i \in DOMAIN opt.str |-> IF opt.str[i] = "~" THEN "=" ELSE opt.str[i]]

C16_Witness ==
  /\ task.cmd # <<>>
  /\ task.task_config.bulk_extractor_args = Option(<<"a", "~", "b", ":", "c">>)
  /\ ExtraArgs = <<<<"a", "=", "b">>, <<"c">>>>

\* The paths that follow a -F in cmd, in their order.
FlagPaths ==
  LET at == {i \in 1..(Len(task.cmd) - 1) : task.cmd[i] = <<"-F">>}
      RECURSIVE Take(_)
      Take(i) == IF i >= Len(task.cmd) THEN <<>>
                 ELSE (IF i \in at THEN <<task.cmd[i + 1]>> ELSE <<>>) \o Take(i + 1)
  IN Take(1)

IsDirectory == task.evidence.type \in {"Directory", "CompressedDirectory"}

\* The extra arguments the configuration asks for.
ConfiguredArgs ==
  LET opt == task.task_config.bulk_extractor_args
  IN IF ~opt.set \/ opt.str = <<>> THEN <<>>
     ELSE Split([i \in DOMAIN opt.str |->
                   IF opt.str[i] = "~" THEN "=" ELSE opt.str[i]], ":")

\* C22: the command is 'bulk_extractor', '-R' exactly for a Directory or a
\* CompressedDirectory, '-o' and the output path, the extra arguments, one
\* '-F' and path per accepted pattern file, and the local path of the
\* evidence last.
C22_CommandOrder ==
  task.cmd # <<>> =>
    LET r == IF IsDirectory THEN 1 ELSE 0
        a == Len(ConfiguredArgs)
        accepted == SelectSeq(task.task_config.regex_pattern_files,
                              LAMBDA path : path \in task.existing)
        n == Len(task.cmd)
    IN /\ n = 3 + r + a + 2 * Len(accepted) + 1
       /\ task.cmd[1] = <<"bulk_extractor">>
       /\ (task.cmd[2] = <<"-R">>) <=> IsDirectory
       /\ task.cmd[2 + r] = <<"-o">>
       /\ task.cmd[3 + r] = PathJoin(OutputDir, Basename(task.evidence.local_path))
       /\ \A k \in 1..a : task.cmd[3 + r + k] = ConfiguredArgs[k]
       /\ \A k \in 1..Len(accepted) :
            /\ task.cmd[3 + r + a + 2 * k - 1] = <<"-F">>
            /\ task.cmd[3 + r + a + 2 * k] = accepted[k]
       /\ task.cmd[n] = task.evidence.local_path

C22_Witness ==
  /\ task.cmd # <<>>
  /\ task.evidence.type = "Directory"
  /\ task.task_config.bulk_extractor_args = Option(<<"-", "e">>)
  /\ FlagPaths = <<<<"p", "2">>, <<"p", "1">>>>
  /\ Len(task.cmd) = 10

\* C23: the paths passed with -F are the configured pattern files that exist,
\* in their configured order and once per configured entry; a path that does
\* not exist is left out and the task goes on to run the command.
C23_PatternFilesChecked ==
  /\ task.pc = "execute" => task.exc = None /\ task.result.closed = 0
  /\ task.cmd # <<>> =>
       LET configured == task.task_config.regex_pattern_files
           passed == FlagPaths
       IN /\ \A k \in DOMAIN passed : passed[k] \in task.existing
          /\ Len(passed) =
               Cardinality({i \in DOMAIN configured : configured[i] \in task.existing})
          /\ \E idx \in [DOMAIN passed -> DOMAIN configured] :
               /\ \A k \in DOMAIN passed : passed[k] = configured[idx[k]]
               /\ \A k, l \in DOMAIN passed : k < l => idx[k] < idx[l]

C23_Witness ==
  /\ task.pc = "execute"
  /\ task.task_config.regex_pattern_files = <<<<"p", "2">>, <<"p", "1">>>>
  /\ task.existing = {<<"p", "1">>}
  /\ FlagPaths = <<<<"p", "1">>>>

-----------------------------------------------------------------------------
(* Claims about create_request *)

-----------------------------------------------------------------------------
(* Claims about upload_file *)

\* C20: an upload_file call that ends without the size error returns the
\* metadata dict: the original name, the saved name, the path, a size equal to
\* the number of bytes written to the destination, and a hash entry exactly
\* when calculate_hash is set, the digest of the whole stream in order.
C20_ReturnsFileMetadata ==
  uf.pc \notin {"idle", "loop"} /\ uf.exc # "IOError" =>
    /\ uf.pc = "returned"
    /\ uf.file_info.kind = "dict"
    /\ {"Original Name", "Saved Name", "File Path", "Size"}
         \subseteq DOMAIN uf.file_info.items
    /\ uf.file_info.items["Original Name"] = <<"name", uf.file.filename>>
    /\ uf.file_info.items["File Path"] = <<"path", uf.file_path>>
    /\ uf.file_info.items["Size"] = <<"int", Len(disk[uf.file_path])>>
    /\ "Hash" \in DOMAIN uf.file_info.items <=> uf.calculate_hash
    /\ uf.calculate_hash => uf.file_info.items["Hash"] = HexDigest(uf.file.data)

\* C21: what a coroutine has written so far stands at its destination in
\* arrival order, and no two coroutines that are in their loops together
\* hold the same destination path.
C21_OrderedAndUnshared ==
  /\ \A u \in UploadIds :
       ups[u].pc = "loop" =>
         /\ Len(disk[ups[u].file_path]) >= ups[u].pos
         /\ SubSeq(disk[ups[u].file_path], 1, ups[u].pos)
              = SubSeq(ups[u].file.data, 1, ups[u].pos)
  /\ \A u, v \in UploadIds :
       u # v /\ ups[u].pc = "loop" /\ ups[v].pc = "loop" =>
         ups[u].file_path # ups[v].file_path

\* C26: the size that upload_file compares with MAX_UPLOAD_SIZE is the number
\* of bytes written to the destination, and a stream shorter than
\* MAX_UPLOAD_SIZE is not stopped by the size error.
C26_CounterIsBytesWritten ==
  uf.pc # "idle" =>
    /\ uf.size = Len(disk[uf.file_path])
    /\ Len(uf.file.data) < config.MAX_UPLOAD_SIZE => uf.exc # "IOError"

\* The value an option was given on the command line.
Supplied(key) ==
  LET i == CHOOSE i \in DOMAIN cli.kwargs : cli.kwargs[i][1] = key
  IN cli.kwargs[i][2]

RecipeKeys == {"recipe_name", "recipe_data"}

\* C29: with recipe_name and recipe_data known as request options, no request
\* that is sent holds both; nothing is sent when both are supplied; with
\* recipe_name alone the request is sent only when the recipe file is found
\* (as given, or next to the client configuration) and read, and it then
\* holds no recipe_name and the base64 text of the file as recipe_data.
C29_OneRecipeOption ==
  cli.pc = "returned" /\ cli.log # "Google Cloud only"
    /\ RecipeKeys \subseteq cli.request_options =>
    LET name == Supplied("recipe_name")
        data == Supplied("recipe_data")
    IN /\ \A n \in DOMAIN cli.sent :
            ~(RecipeKeys \subseteq DOMAIN cli.sent[n].request_options)
       /\ Truthy(name) /\ Truthy(data) => cli.sent = <<>>
       /\ Truthy(name) /\ ~Truthy(data) =>
            LET yaml == IF name[2][Len(name[2])] = ".yaml" THEN name[2]
                        ELSE name[2] \o <<".yaml">>
                near == ConfigPath \o <<"/">> \o yaml
            IN IF (yaml \in cli.files \/ near \in cli.files) /\ cli.readable
                 THEN /\ Len(cli.sent) = 1
                      /\ "recipe_name" \notin DOMAIN cli.sent[1].request_options
                      /\ cli.sent[1].request_options["recipe_data"] =
                           Str(B64Encode(<<"recipe of">>
                                 \o (IF yaml \in cli.files THEN yaml ELSE near)))
                 ELSE cli.sent = <<>>
       /\ ~Truthy(name) => Len(cli.sent) = 1 /\ cli.sent[1] = cli.request

C29_Witness ==
  /\ cli.pc = "returned"
  /\ RecipeKeys \subseteq cli.request_options
  /\ Supplied("recipe_name") = Str(<<"r">>)
  /\ Len(cli.sent) = 1
  /\ DOMAIN cli.sent[1].request_options = {"recipe_data"}
  /\ cli.sent[1].request_options["recipe_data"] =
       Str(<<"cmVjaXBlIG9m", "fg==", "Y2Zn", "Lw==", "cg==", "LnlhbWw=">>)

-----------------------------------------------------------------------------
(* Claims about get_evidence_attributes *)

\* C27: a request for a type that is no key of the attribute mapping is
\* answered with 404, and an answer with status 200 is for a known type and
\* holds that type's attributes.
C27_UnknownTypeNotFound ==
  \A n \in DOMAIN responses :
    LET r == responses[n]
    IN /\ r.evidence_type \notin KnownTypes => r.status_code = 404
       /\ r.status_code = 200 =>
            /\ r.evidence_type \in KnownTypes
            /\ r.content =
                 Put(EmptyDict, r.evidence_type, AttributeMapping[r.evidence_type])

-----------------------------------------------------------------------------
(* Claims about the upload command of the client *)

\* C28: every call the upload command makes carries the ticket of the command
\* line as the ticked_id query parameter and the (filename, data, mimetype)
\* tuple of the file as the files form parameter.
C28_TicketAndFilesAgree ==
  \A n \in DOMAIN cli.calls :
    LET call == cli.calls[n]
    IN /\ call.request.query_params[1] = <<"ticked_id", cli.ticket_id>>
       /\ call.request.post_params = <<<<"files", UploadTuple(call.file_path)>>>>

\* The files of the list the command has dealt with so far.
Dealt == SubSeq(cli.all_files, 1, cli.i - 1)

\* C30: the calls made so far are, in order, one for each file dealt with
\* that exists, can be read and is not larger than MAX_UPLOAD_SIZE, and none
\* for any other; the report holds, under the absolute path of each file
\* called for, the answer of its last call, an error text when the call
\* failed; a failed call does not end the loop.
C30_SkipAndGoOn ==
  cli.pc \in {"loop", "done"} =>
    LET wanted == SelectSeq(Dealt, LAMBDA p :
                    /\ p \in DOMAIN LocalFiles
                    /\ LocalFiles[p].readable
                    /\ Len(LocalFiles[p].data) <= config.MAX_UPLOAD_SIZE)
    IN /\ [n \in DOMAIN cli.calls |-> cli.calls[n].file_path] = wanted
       /\ DOMAIN cli.report = {Abspath(wanted[n]) : n \in DOMAIN wanted}
       /\ \A n \in DOMAIN cli.calls :
            (\A m \in DOMAIN cli.calls :
               m > n => cli.calls[m].file_path # cli.calls[n].file_path) =>
              cli.report[Abspath(cli.calls[n].file_path)] =
                IF cli.calls[n].status = 200 THEN <<"response", 200>>
                ELSE <<"Received status code", cli.calls[n].status>>
       /\ cli.pc = "done" => cli.i = Len(cli.all_files) + 1

C30_Witness ==
  /\ cli.pc = "done"
  /\ cli.all_files = <<<<"big", ".img">>, <<"e", ".img">>,
                       <<"d", "/", "a", ".txt">>>>
  /\ Len(cli.calls) = 2
  /\ cli.calls[1].status = 500 /\ cli.calls[2].status = 200
  /\ cli.report[Abspath(<<"e", ".img">>)] = ApiErrorMessage(500)

====
